---------------------------- MODULE Spec2Model ----------------------------
(***************************************************************************)
(* COMPAS bias audit: the class auditor (compas_bias_audit.py) and the     *)
(* simplified script (compas_simplified_audit.py) as one state machine.    *)
(* One run of one of the two programs over one input file is a behaviour.  *)
(*                                                                         *)
(* A data frame is a bag of rows: every computation of the two programs    *)
(* over the frame (mean, sum, boolean masks, len) is independent of the    *)
(* row order and of the index.  Floating-point values are exact rationals  *)
(* together with the IEEE markers NaN and +/-inf that numpy and pandas     *)
(* produce for 0/0, x/0 and the mean of an empty selection.                *)
(***************************************************************************)
EXTENDS Integers, Sequences, FiniteSets, Bags, TLC

(* ------------------------------ bounds -------------------------------- *)
\* largest number of rows of an input file with arbitrary rows
MaxRows == 3
\* largest number of equal rows of an input file with complete rows only
MaxCell == 7

(* ------------------------- program constants -------------------------- *)
high_risk_threshold == 5

relevant_cols ==
  {"race", "age", "sex", "priors_count", "c_charge_degree",
   "two_year_recid", "decile_score", "score_text"}

\* the five relevant columns no metric reads
OtherCols == {"age", "sex", "priors_count", "c_charge_degree", "score_text"}

(* ------------------------- float arithmetic --------------------------- *)
RECURSIVE GCD(_, _)
GCD(a, b) == IF b = 0 THEN a ELSE GCD(b, a % b)

IAbs(i) == IF i < 0 THEN -i ELSE i

\* the float n/d (d > 0), as a reduced fraction
Num(n, d) ==
  LET g == GCD(IAbs(n), d)
  IN  [k |-> "num", n |-> n \div g, d |-> d \div g]

NaN == [k |-> "nan", n |-> 0, d |-> 1]
Inf == [k |-> "inf", n |-> 0, d |-> 1]
NegInf == [k |-> "-inf", n |-> 0, d |-> 1]
Zero == Num(0, 1)
One == Num(1, 1)

IsNum(a) == a.k = "num"
IsNaN(a) == a.k = "nan"

\* a / b of two floats (numpy scalars: no ZeroDivisionError)
FDiv(a, b) ==
  IF IsNaN(a) \/ IsNaN(b) THEN NaN
  ELSE IF ~IsNum(a)
    THEN IF ~IsNum(b) THEN NaN
         ELSE IF (a.k = "inf") = (b.n >= 0) THEN Inf ELSE NegInf
  ELSE IF ~IsNum(b) THEN Zero
  ELSE IF b.n = 0
    THEN IF a.n = 0 THEN NaN ELSE IF a.n > 0 THEN Inf ELSE NegInf
  ELSE IF b.n > 0 THEN Num(a.n * b.d, a.d * b.n)
  ELSE Num(-(a.n * b.d), a.d * (-b.n))

\* a - b
FSub(a, b) ==
  IF IsNaN(a) \/ IsNaN(b) THEN NaN
  ELSE IF ~IsNum(a)
    THEN IF a.k = b.k THEN NaN ELSE a
  ELSE IF ~IsNum(b)
    THEN IF b.k = "inf" THEN NegInf ELSE Inf
  ELSE Num(a.n * b.d - b.n * a.d, a.d * b.d)

\* abs(a)
FAbs(a) ==
  IF IsNum(a) THEN Num(IAbs(a.n), a.d)
  ELSE IF IsNaN(a) THEN NaN ELSE Inf

\* a > b; every comparison with NaN is False
FGt(a, b) ==
  IF IsNaN(a) \/ IsNaN(b) THEN FALSE
  ELSE IF a.k = "inf" THEN b.k # "inf"
  ELSE IF a.k = "-inf" THEN FALSE
  ELSE IF b.k = "inf" THEN FALSE
  ELSE IF b.k = "-inf" THEN TRUE
  ELSE a.n * b.d > b.n * a.d

\* a < b
FLt(a, b) == FGt(b, a)

\* a <= b
FLe(a, b) == ~IsNaN(a) /\ ~IsNaN(b) /\ ~FGt(a, b)

\* Series.mean() / np.mean(): count of ones over the size; NaN when empty
Mean(ones, size) == IF size = 0 THEN NaN ELSE Num(ones, size)

\* np.sum(..) / np.sum(..) of two integer counts: 0/0 is nan, x/0 is inf
NpDivide(num, den) == FDiv(Num(num, 1), Num(den, 1))


\* the class auditor's cut: decile_score >= 5
high_risk_score == 5

(* ----------------------------- data model ----------------------------- *)
AfricanAmerican == "African-American"
Races == {AfricanAmerican, "Caucasian"}

\* decile scores around the threshold
Scores == (high_risk_threshold - 1) .. (high_risk_threshold + 1)

\* a null cell (pandas NaN / None) of a numeric and of a text column
NullNum == -1
NullStr == "null"
\* the cell of a column the frame does not have
NoColumn == -2
NoColumnStr == "no column"

\* A row.  other stands for the five relevant columns no metric reads
\* (age, sex, priors_count, c_charge_degree, score_text): "ok" when none of
\* them is null.  race_binary and high_risk are the columns the programs add.
Row(race, score, recid, other) ==
  [race |-> race, decile_score |-> score, two_year_recid |-> recid,
   other |-> other, race_binary |-> NoColumn, high_risk |-> NoColumn]

CompleteRows ==
  {Row(g, s, y, "ok") : g \in Races, s \in Scores, y \in {0, 1}}

\* rows with one null cell
NullRows ==
  {Row(NullStr, high_risk_threshold + 1, 0, "ok"),
   Row(AfricanAmerican, NullNum, 0, "ok"),
   Row(AfricanAmerican, high_risk_threshold + 1, NullNum, "ok"),
   Row(AfricanAmerican, high_risk_threshold + 1, 1, NullStr)}

\* the rows of B that are in the set rows (a boolean mask, as the rows it keeps)
BagFilter(B, rows) == [r \in DOMAIN B \cap rows |-> B[r]]

\* len(B[mask]) / np.sum(mask), for the mask that keeps the set rows
Count(B, rows) == BagCardinality(BagFilter(B, rows))

RECURSIVE BagsUpTo(_, _)
BagsUpTo(rows, n) ==
  IF n = 0 THEN {EmptyBag}
  ELSE LET S == BagsUpTo(rows, n - 1)
       IN  S \cup {b (+) SetToBag({r}) : b \in S, r \in rows}

\* input files with arbitrary rows, nulls included
SmallTables == BagsUpTo(CompleteRows \cup NullRows, MaxRows)

\* input files of complete, non-recidivist rows scored just below or at the
\* threshold, with up to MaxCell equal rows of each kind
BoundaryCells ==
  {Row(g, s, 0, "ok") : g \in Races, s \in {high_risk_threshold - 1, high_risk_threshold}}

BoundaryTables ==
  {[r \in {c \in BoundaryCells : f[c] > 0} |-> f[r]] :
     f \in [BoundaryCells -> 0 .. MaxCell]}

\* the cell of column c of row r is blanked: the file has no such column
WithoutColumn(r, c) ==
  IF c = "race" THEN [r EXCEPT !.race = NoColumnStr]
  ELSE IF c = "decile_score" THEN [r EXCEPT !.decile_score = NoColumn]
  ELSE IF c = "two_year_recid" THEN [r EXCEPT !.two_year_recid = NoColumn]
  ELSE [r EXCEPT !.other = NoColumnStr]

\* the input file compas-scores-two-years.csv, as the run finds it
Files ==
  {[exists |-> TRUE, columns |-> relevant_cols, rows |-> t] :
     t \in SmallTables \cup BoundaryTables}
  \cup
  {[exists |-> TRUE, columns |-> relevant_cols \ {c},
    rows |-> BagOfAll(LAMBDA r : WithoutColumn(r, c), t)] :
     c \in relevant_cols, t \in BagsUpTo(CompleteRows, 1)}
  \cup
  {[exists |-> FALSE, columns |-> {}, rows |-> EmptyBag]}


(* ---------------------------- preprocessing --------------------------- *)
\* a change of the code: the columns are not selected, so none is missed
LoadSucceedsUnchecked(f) == f.exists

\* pd.read_csv succeeds and data[relevant_cols] finds every column
LoadSucceeds(f) == f.exists /\ relevant_cols \subseteq f.columns

HasNull(r) ==
  \/ r.race = NullStr
  \/ r.decile_score = NullNum
  \/ r.two_year_recid = NullNum
  \/ r.other = NullStr

\* a change of the code: no row is dropped
dropnaKeepsAll(B) == B

\* DataFrame.dropna(): a new frame without the rows that have a null cell
dropna(B) == BagFilter(B, {r \in DOMAIN B : ~HasNull(r)})

\* data['race_binary'] = (data['race'] == 'African-American').astype(int)
AddRaceBinary(B) ==
  BagOfAll(LAMBDA r :
             [r EXCEPT !.race_binary = IF r.race = AfricanAmerican THEN 1 ELSE 0],
           B)

\* the frame both programs work on: relevant columns, no nulls, race_binary
Preprocess(f) == AddRaceBinary(dropna(f.rows))

\* a change of the code: > for >=
HighRiskStrict(score, threshold) == IF score > threshold THEN 1 ELSE 0

\* decile_score >= threshold, as an int
HighRisk(score, threshold) == IF score >= threshold THEN 1 ELSE 0

\* a change of the code: the flag is written over decile_score as well
AddHighRiskOverScore(B, threshold) ==
  BagOfAll(LAMBDA r :
             [r EXCEPT !.high_risk = HighRisk(r.decile_score, threshold),
                       !.decile_score = HighRisk(r.decile_score, threshold)],
           B)

\* data['high_risk'] = (data['decile_score'] >= threshold).astype(int):
\* the column is written into the frame the caller passed
AddHighRisk(B, threshold) ==
  BagOfAll(LAMBDA r :
             [r EXCEPT !.high_risk = HighRisk(r.decile_score, threshold)],
           B)

(* ------------------------- sklearn.metrics ---------------------------- *)
\* recall_score: tp / (tp + fn), 0.0 when there is no positive sample
recall_score(tp, fn) == IF tp + fn = 0 THEN Zero ELSE Num(tp, tp + fn)

\* precision_score: tp / (tp + fp), 0.0 when nothing is predicted positive
precision_score(tp, fp) == IF tp + fp = 0 THEN Zero ELSE Num(tp, tp + fp)

\* f1_score: 2 tp / (2 tp + fp + fn), 0.0 when undefined
f1_score(tp, fp, fn) ==
  IF 2 * tp + fp + fn = 0 THEN Zero ELSE Num(2 * tp, 2 * tp + fp + fn)

\* accuracy_score: the mean of y_true == y_pred
accuracy_score(right, size) == Mean(right, size)

(* ------------------ CompasBiasAuditor.calculate_fairness_metrics ------ *)
\* the cohort's selection rate when the decision is decile_score >= t
ClassSelectionRate(B, mask, t) ==
  Mean(Count(B, {r \in mask : HighRisk(r.decile_score, t) = 1}),
       Count(B, mask))

\* np.sum((y_true == 0) & (y_pred == 1)) / np.sum(y_true == 0) over the mask
ClassFpr(B, mask, t) ==
  NpDivide(Count(B, {r \in mask : r.two_year_recid = 0
                                    /\ HighRisk(r.decile_score, t) = 1}),
           Count(B, {r \in mask : r.two_year_recid = 0}))

\* recall_score(y_true[mask], y_pred[mask])
ClassTpr(B, mask, t) ==
  recall_score(Count(B, {r \in mask : r.two_year_recid = 1
                                        /\ HighRisk(r.decile_score, t) = 1}),
               Count(B, {r \in mask : r.two_year_recid = 1
                                        /\ HighRisk(r.decile_score, t) = 0}))

\* selection_rate_aa / selection_rate_others if selection_rate_others > 0
\* else float('inf')
ClassDisparateImpact(sel_aa, sel_others) ==
  IF FGt(sel_others, Zero) THEN FDiv(sel_aa, sel_others) ELSE Inf

calculate_fairness_metrics(B, t) ==
  LET aa == {r \in DOMAIN B : r.race_binary = 1}
      others == {r \in DOMAIN B : r.race_binary = 0}
      tp == Count(B, {r \in DOMAIN B : r.two_year_recid = 1 /\ HighRisk(r.decile_score, t) = 1})
      fp == Count(B, {r \in DOMAIN B : r.two_year_recid = 0 /\ HighRisk(r.decile_score, t) = 1})
      fn == Count(B, {r \in DOMAIN B : r.two_year_recid = 1 /\ HighRisk(r.decile_score, t) = 0})
      right == Count(B, {r \in DOMAIN B : r.two_year_recid = HighRisk(r.decile_score, t)})
      tpr_aa == ClassTpr(B, aa, t)
      tpr_others == ClassTpr(B, others, t)
      fpr_aa == ClassFpr(B, aa, t)
      fpr_others == ClassFpr(B, others, t)
      sel_aa == ClassSelectionRate(B, aa, t)
      sel_others == ClassSelectionRate(B, others, t)
  IN  [accuracy |-> accuracy_score(right, Count(B, DOMAIN B)),
       precision |-> precision_score(tp, fp),
       recall |-> recall_score(tp, fn),
       f1 |-> f1_score(tp, fp, fn),
       tpr_aa |-> tpr_aa,
       tpr_other |-> tpr_others,
       fpr_aa |-> fpr_aa,
       fpr_other |-> fpr_others,
       tnr_aa |-> FSub(One, fpr_aa),
       tnr_other |-> FSub(One, fpr_others),
       selection_rate_aa |-> sel_aa,
       selection_rate_other |-> sel_others,
       tpr_difference |-> FAbs(FSub(tpr_aa, tpr_others)),
       fpr_difference |-> FAbs(FSub(fpr_aa, fpr_others)),
       disparate_impact |-> ClassDisparateImpact(sel_aa, sel_others)]

(* ----------------------------- analyze_bias --------------------------- *)
\* subset['high_risk'].mean()
HighRiskMean(B, subset) ==
  Mean(Count(B, {r \in subset : r.high_risk = 1}), Count(B, subset))

\* subset['high_risk'].mean() if len(subset) > 0, else 0
GuardedRate(B, subset) ==
  IF Count(B, subset) > 0 THEN HighRiskMean(B, subset) ELSE Zero

\* metrics['selection_rate_aa'] / metrics['selection_rate_other']
SimpleDisparateImpact(sel_aa, sel_other) == FDiv(sel_aa, sel_other)

\* the metrics of analyze_bias, over the frame that has its high_risk column
analyze_bias(B) ==
  LET aa == {r \in DOMAIN B : r.race = AfricanAmerican}
      other == {r \in DOMAIN B : r.race # AfricanAmerican}
      sel_aa == HighRiskMean(B, aa)
      sel_other == HighRiskMean(B, other)
  IN  [selection_rate_aa |-> sel_aa,
       selection_rate_other |-> sel_other,
       disparate_impact |-> SimpleDisparateImpact(sel_aa, sel_other),
       fpr_aa |-> GuardedRate(B, {r \in aa : r.two_year_recid = 0}),
       fpr_other |-> GuardedRate(B, {r \in other : r.two_year_recid = 0}),
       tpr_aa |-> GuardedRate(B, {r \in aa : r.two_year_recid = 1}),
       tpr_other |-> GuardedRate(B, {r \in other : r.two_year_recid = 1})]

(* ----------------------------- assessments ---------------------------- *)
ParityLow == Num(8, 10)
ParityHigh == Num(12, 10)
EqualOpportunityBound == Num(5, 100)

\* generate_report: 'VIOLATED' if di < 0.8 or di > 1.2 else 'ACCEPTABLE'
ClassParityAssessment(di) ==
  IF FLt(di, ParityLow) \/ FGt(di, ParityHigh) THEN "VIOLATED" ELSE "ACCEPTABLE"

\* a change of the code: the bound itself is flagged (>= for >)
EqualOpportunityAtBoundViolated(fpr_difference) ==
  IF FGt(fpr_difference, EqualOpportunityBound)
     \/ fpr_difference = EqualOpportunityBound
  THEN "VIOLATED" ELSE "ACCEPTABLE"

\* generate_report: 'VIOLATED' if fpr_difference > 0.05 else 'ACCEPTABLE'
ClassEqualOpportunityAssessment(fpr_difference) ==
  IF FGt(fpr_difference, EqualOpportunityBound) THEN "VIOLATED" ELSE "ACCEPTABLE"

\* analyze_bias, console
ConsoleParityAssessment(di) ==
  IF FLt(di, ParityLow) \/ FGt(di, ParityHigh)
  THEN "WARNING: DEMOGRAPHIC PARITY VIOLATED (80%-125% rule)"
  ELSE "OK: Demographic parity acceptable"

ConsoleEqualOpportunityAssessment(fpr_aa, fpr_other) ==
  IF FGt(FAbs(FSub(fpr_aa, fpr_other)), EqualOpportunityBound)
  THEN "WARNING: EQUAL OPPORTUNITY VIOLATED (>5% difference)"
  ELSE "OK: Equal opportunity acceptable"

\* generate_audit_report, the sentence of finding 1
ReportParitySentence(di) ==
  IF FGt(di, ParityHigh)
  THEN "substantial bias against African Americans"
  ELSE "acceptable demographic parity"


(* ------------------------------ formatting ---------------------------- *)
RECURSIVE Pow10(_)
Pow10(e) == IF e = 0 THEN 1 ELSE 10 * Pow10(e - 1)

\* n/d (n >= 0) to the nearest integer, an exact tie to the even one
RoundHalfEven(n, d) ==
  LET q == n \div d
      r == n % d
  IN  IF 2 * r > d THEN q + 1
      ELSE IF 2 * r < d THEN q
      ELSE q + (q % 2)

\* f'{v:.<digits>f}': the text "nan" or "inf", or the value in units of
\* 10^-digits
FormatFixed(v, digits) ==
  IF IsNum(v)
  THEN [text |-> "number",
        units |-> (IF v.n < 0 THEN -1 ELSE 1)
                    * RoundHalfEven(IAbs(v.n) * Pow10(digits), v.d),
        digits |-> digits]
  ELSE [text |-> v.k, units |-> 0, digits |-> digits]

\* f'{v:.1%}': the value times 100, with one digit
FormatPercent(v) == FormatFixed(FDiv(v, Num(1, 100)), 1)

(* ------------------------------ statistics ---------------------------- *)
RECURSIVE SumScores(_, _)
SumScores(B, rows) ==
  IF rows = {} THEN 0
  ELSE LET r == CHOOSE x \in rows : TRUE
       IN  B[r] * r.decile_score + SumScores(B, rows \ {r})

\* overall recidivism rate, and per race the recidivism mean and count and
\* the mean decile score (the standard deviation the class auditor prints
\* besides is not a rational and is left out)
BasicStatistics(B) ==
  [overall |-> Mean(Count(B, {r \in DOMAIN B : r.two_year_recid = 1}),
                    Count(B, DOMAIN B)),
   by_race |->
     [g \in {r.race : r \in DOMAIN B} |->
        [mean |-> Mean(Count(B, {r \in DOMAIN B : r.race = g /\ r.two_year_recid = 1}),
                       Count(B, {r \in DOMAIN B : r.race = g})),
         count |-> Count(B, {r \in DOMAIN B : r.race = g}),
         score_mean |-> Num(SumScores(B, {r \in DOMAIN B : r.race = g}),
                            Count(B, {r \in DOMAIN B : r.race = g}))]]]

(* -------------------------------- state ------------------------------- *)
VARIABLES
  prog,        \* which program runs: "class" or "simple"
  file,        \* compas-scores-two-years.csv
  pc,          \* the statement the run is at
  load,        \* "pending", "ok" or "failed"
  data,        \* the data frame (self.data / data)
  stats,       \* <<>> or the statistics printed
  calls,       \* the metrics returned by each invocation of the computation
  console,     \* the lines printed that matter
  plotted,     \* <<>> or the values drawn into compas_bias_analysis.png
  report,      \* <<>> or the values and assessments of the report text
  written,     \* the files written
  result       \* main's return value

vars ==
  <<prog, file, pc, load, data, stats, calls, console, plotted, report,
    written, result>>

\* the clock readings pd.Timestamp.now() may give
Clock == {1, 2}

Init ==
  /\ prog \in {"class", "simple"}
  /\ file \in Files
  /\ pc = IF prog = "class" THEN "c_load" ELSE "s_load"
  /\ load = "pending"
  /\ data = EmptyBag
  /\ stats = <<>>
  /\ calls = <<>>
  /\ console = <<>>
  /\ plotted = <<>>
  /\ report = <<>>
  /\ written = {}
  /\ result = "running"


(* --------------------- compas_bias_audit.py: main --------------------- *)
\* load_data: read_csv and _preprocess_data succeed
ClassLoadData ==
  /\ prog = "class" /\ pc = "c_load"
  /\ LoadSucceeds(file)
  /\ data' = Preprocess(file)
  /\ load' = "ok"
  /\ console' = console \o <<"Dataset loaded successfully",
                             "Data preprocessing completed.">>
  /\ pc' = "c_stats"
  /\ UNCHANGED <<prog, file, stats, calls, plotted, report, written, result>>

\* load_data: read_csv or the column selection raises; load_data returns
\* False and generate_report returns "Failed to load dataset" to main
ClassLoadDataFails ==
  /\ prog = "class" /\ pc = "c_load"
  /\ ~LoadSucceeds(file)
  /\ data' = IF file.exists THEN file.rows ELSE data
  /\ load' = "failed"
  /\ console' = console \o
       (IF file.exists THEN <<"Dataset loaded successfully">> ELSE <<>>)
       \o <<"Error loading dataset">>
  /\ pc' = "c_main"
  /\ UNCHANGED <<prog, file, stats, calls, plotted, report, written, result>>

ClassBasicStatistics ==
  /\ prog = "class" /\ pc = "c_stats"
  /\ stats' = <<BasicStatistics(data)>>
  /\ console' = Append(console, "BASIC DATASET STATISTICS")
  /\ pc' = "c_metrics"
  /\ UNCHANGED <<prog, file, load, data, calls, plotted, report, written, result>>

\* metrics = self.calculate_fairness_metrics(), from generate_report
ClassFairnessMetrics ==
  /\ prog = "class" /\ pc = "c_metrics"
  /\ calls' = Append(calls, calculate_fairness_metrics(data, high_risk_score))
  /\ console' = Append(console, "FAIRNESS METRICS ANALYSIS")
  /\ pc' = "c_viz"
  /\ UNCHANGED <<prog, file, load, data, stats, plotted, report, written, result>>

\* generate_visualizations computes the metrics again and draws them
ClassGenerateVisualizations ==
  /\ prog = "class" /\ pc = "c_viz"
  /\ LET m == calculate_fairness_metrics(data, high_risk_score)
     IN  /\ calls' = Append(calls, m)
         /\ plotted' =
              <<[fprs |-> <<m.fpr_aa, m.fpr_other>>,
                 selection_rates |-> <<m.selection_rate_aa, m.selection_rate_other>>,
                 disparate_impact |-> m.disparate_impact,
                 heatmap |-> <<<<m.tpr_aa, m.fpr_aa, m.selection_rate_aa, m.tnr_aa>>,
                               <<m.tpr_other, m.fpr_other, m.selection_rate_other,
                                 m.tnr_other>>>>]>>
  /\ console' = Append(console, "FAIRNESS METRICS ANALYSIS")
  /\ written' = written \cup {"compas_bias_analysis.png"}
  /\ pc' = "c_report"
  /\ UNCHANGED <<prog, file, load, data, stats, report, result>>

\* generate_report compiles the findings from its own metrics, prints and
\* saves them
ClassCompileReport ==
  /\ prog = "class" /\ pc = "c_report"
  /\ \E now \in Clock :
       LET m == calls[1]
       IN  report' =
             <<[total |-> Count(data, DOMAIN data),
                african_american |-> Count(data, {r \in DOMAIN data : r.race = AfricanAmerican}),
                other |-> Count(data, {r \in DOMAIN data : r.race # AfricanAmerican}),
                recidivism |-> FormatFixed(stats[1].overall, 3),
                selection_rate_aa |-> FormatFixed(m.selection_rate_aa, 3),
                selection_rate_other |-> FormatFixed(m.selection_rate_other, 3),
                disparate_impact |-> FormatFixed(m.disparate_impact, 3),
                parity |-> ClassParityAssessment(m.disparate_impact),
                fpr_aa |-> FormatFixed(m.fpr_aa, 3),
                fpr_other |-> FormatFixed(m.fpr_other, 3),
                fpr_difference |-> FormatFixed(m.fpr_difference, 3),
                equal_opportunity |-> ClassEqualOpportunityAssessment(m.fpr_difference),
                fairness_score |->
                  FormatFixed(FSub(FSub(One, FAbs(m.fpr_difference)),
                                   FAbs(FSub(m.disparate_impact, One))), 3),
                times_more_likely |-> FormatFixed(m.disparate_impact, 2),
                generated |-> now]>>
  /\ console' = Append(console, "COMPAS RECIDIVISM BIAS AUDIT - EXECUTIVE SUMMARY")
  /\ written' = written \cup {"compas_bias_audit_report.txt"}
  /\ pc' = "c_main"
  /\ UNCHANGED <<prog, file, load, data, stats, calls, plotted, result>>

\* main, after generate_report has returned without an exception
ClassMainReturns ==
  /\ prog = "class" /\ pc = "c_main"
  /\ console' = Append(console, "Audit completed successfully!")
  /\ result' = "True"
  /\ pc' = "done"
  /\ UNCHANGED <<prog, file, load, data, stats, calls, plotted, report, written>>

(* ------------ compas_simplified_audit.py: load_and_analyze_compas ----- *)
SimpleLoad ==
  /\ prog = "simple" /\ pc = "s_load"
  /\ LoadSucceeds(file)
  /\ data' = Preprocess(file)
  /\ load' = "ok"
  /\ console' = console \o <<"Dataset loaded", "After cleaning">>
  /\ pc' = "s_stats"
  /\ UNCHANGED <<prog, file, stats, calls, plotted, report, written, result>>

\* the except branch prints the error and returns
SimpleLoadFails ==
  /\ prog = "simple" /\ pc = "s_load"
  /\ ~LoadSucceeds(file)
  /\ data' = IF file.exists THEN file.rows ELSE data
  /\ load' = "failed"
  /\ console' = console \o
       (IF file.exists THEN <<"Dataset loaded">> ELSE <<>>)
       \o <<"Error loading data">>
  /\ result' = "None"
  /\ pc' = "done"
  /\ UNCHANGED <<prog, file, stats, calls, plotted, report, written>>

SimpleBasicStatistics ==
  /\ prog = "simple" /\ pc = "s_stats"
  /\ stats' = <<BasicStatistics(data)>>
  /\ console' = Append(console, "Basic Statistics:")
  /\ pc' = "s_bias"
  /\ UNCHANGED <<prog, file, load, data, calls, plotted, report, written, result>>

\* what one call analyze_bias(data) prints
AnalyzeBiasPrints(m) ==
  <<"FAIRNESS METRICS ANALYSIS",
    ConsoleParityAssessment(m.disparate_impact),
    ConsoleEqualOpportunityAssessment(m.fpr_aa, m.fpr_other)>>

\* analyze_bias(data), from load_and_analyze_compas
SimpleAnalyzeBias ==
  /\ prog = "simple" /\ pc = "s_bias"
  /\ LET d == AddHighRisk(data, high_risk_threshold)
         m == analyze_bias(d)
     IN  /\ data' = d
         /\ calls' = Append(calls, m)
         /\ console' = console \o AnalyzeBiasPrints(m)
  /\ pc' = "s_viz"
  /\ UNCHANGED <<prog, file, load, stats, plotted, report, written, result>>

\* create_visualizations computes its own rates from decile_score >= 5
SimpleCreateVisualizations ==
  /\ prog = "simple" /\ pc = "s_viz"
  /\ LET aa == {r \in DOMAIN data : r.race = AfricanAmerican}
         other == {r \in DOMAIN data : r.race # AfricanAmerican}
         rate(subset) ==
           Mean(Count(data, {r \in subset : r.decile_score >= high_risk_score}),
                Count(data, subset))
         guarded(subset) ==
           IF Count(data, subset) > 0 THEN rate(subset) ELSE Zero
     IN  plotted' =
           <<[high_risk_aa |-> rate(aa),
              high_risk_other |-> rate(other),
              fpr_aa |-> guarded({r \in aa : r.two_year_recid = 0}),
              fpr_other |-> guarded({r \in other : r.two_year_recid = 0})]>>
  /\ console' = console \o <<"Generating visualizations...",
                             "Visualization saved as 'compas_bias_analysis.png'">>
  /\ written' = written \cup {"compas_bias_analysis.png"}
  /\ pc' = "s_report"
  /\ UNCHANGED <<prog, file, load, data, stats, calls, report, result>>

\* generate_audit_report calls analyze_bias again, prints and saves the report
SimpleGenerateAuditReport ==
  /\ prog = "simple" /\ pc = "s_report"
  /\ LET d == AddHighRisk(data, high_risk_threshold)
         m == analyze_bias(d)
     IN  /\ data' = d
         /\ calls' = Append(calls, m)
         /\ console' = console \o AnalyzeBiasPrints(m)
                         \o <<"FINAL AUDIT REPORT",
                              "Report saved as 'compas_audit_report.txt'">>
         /\ report' =
              <<[total |-> Count(d, DOMAIN d),
                 selection_rate_aa |-> FormatPercent(m.selection_rate_aa),
                 selection_rate_other |-> FormatPercent(m.selection_rate_other),
                 disparate_impact |-> FormatFixed(m.disparate_impact, 2),
                 parity |-> ReportParitySentence(m.disparate_impact),
                 fpr_aa |-> FormatPercent(m.fpr_aa),
                 fpr_other |-> FormatPercent(m.fpr_other),
                 fpr_difference |-> FormatPercent(FAbs(FSub(m.fpr_aa, m.fpr_other))),
                 tpr_aa |-> FormatPercent(m.tpr_aa),
                 tpr_other |-> FormatPercent(m.tpr_other)]>>
  /\ written' = written \cup {"compas_audit_report.txt"}
  /\ result' = "None"
  /\ pc' = "done"
  /\ UNCHANGED <<prog, file, load, stats, plotted>>

Next ==
  \/ ClassLoadData
  \/ ClassLoadDataFails
  \/ ClassBasicStatistics
  \/ ClassFairnessMetrics
  \/ ClassGenerateVisualizations
  \/ ClassCompileReport
  \/ ClassMainReturns
  \/ SimpleLoad
  \/ SimpleLoadFails
  \/ SimpleBasicStatistics
  \/ SimpleAnalyzeBias
  \/ SimpleCreateVisualizations
  \/ SimpleGenerateAuditReport

Spec == Init /\ [][Next]_vars


(* ------------------------- notions of the claims ---------------------- *)
Comparison(r) == r.race = AfricanAmerican
Reference(r) == r.race # AfricanAmerican
Negative(r) == r.two_year_recid = 0
Positive(r) == r.two_year_recid = 1
Selected(r) == r.decile_score >= 5

\* the records of the two cohorts, and the number of records among rows
ComparisonRows == {r \in DOMAIN data : Comparison(r)}
ReferenceRows == {r \in DOMAIN data : Reference(r)}
Size(rows) == Count(data, rows)

Computed == Len(calls) >= 1
Calls == {calls[i] : i \in 1 .. Len(calls)}

\* a number in [0, 1]
InUnit(v) == IsNum(v) /\ 0 <= v.n /\ v.n <= v.d

\* the gap of two rates
Gap(a, b) == FAbs(FSub(a, b))

\* the rate-valued metrics of one computation
Rates(m) ==
  {m.selection_rate_aa, m.selection_rate_other, m.fpr_aa, m.fpr_other,
   m.tpr_aa, m.tpr_other, Gap(m.fpr_aa, m.fpr_other), Gap(m.tpr_aa, m.tpr_other)}
  \cup (IF prog = "class" THEN {m.fpr_difference, m.tpr_difference} ELSE {})

InConsole(line) == \E i \in 1 .. Len(console) : console[i] = line

\* the parity verdicts the run has rendered so far
ParityVerdicts ==
  (IF report # <<>> /\ prog = "class" THEN {report[1].parity} ELSE {})
  \cup (IF report # <<>> /\ prog = "simple"
        THEN {IF report[1].parity = "acceptable demographic parity"
              THEN "ACCEPTABLE" ELSE "VIOLATED"}
        ELSE {})
  \cup (IF InConsole("WARNING: DEMOGRAPHIC PARITY VIOLATED (80%-125% rule)")
        THEN {"VIOLATED"} ELSE {})
  \cup (IF InConsole("OK: Demographic parity acceptable")
        THEN {"ACCEPTABLE"} ELSE {})

\* the equal-opportunity verdicts the run has rendered so far
EqualOpportunityVerdicts ==
  (IF report # <<>> /\ prog = "class" THEN {report[1].equal_opportunity} ELSE {})
  \cup (IF InConsole("WARNING: EQUAL OPPORTUNITY VIOLATED (>5% difference)")
        THEN {"VIOLATED"} ELSE {})
  \cup (IF InConsole("OK: Equal opportunity acceptable")
        THEN {"ACCEPTABLE"} ELSE {})

(* -------------------------------- C1 ---------------------------------- *)
\* both cohorts have a record
BothCohorts == Size(ComparisonRows) > 0 /\ Size(ReferenceRows) > 0

\* C1: for a non-empty population every rate-valued metric of every
\* computation lies in [0,1] and disparate_impact is a number >= 0 or the
\* infinite marker, never NaN.  Stated here for the populations in which
\* both cohorts have a record, where no rate is the mean of an empty cohort.
C1_RatesInRange ==
  (load = "ok" /\ BothCohorts) =>
    \A m \in Calls :
      /\ \A v \in Rates(m) : InUnit(v)
      /\ \/ IsNum(m.disparate_impact) /\ m.disparate_impact.n >= 0
         \/ m.disparate_impact = Inf

(* -------------------------------- C2 ---------------------------------- *)
\* C2: in both programs a cohort without a negative-outcome record has
\* false positive rate exactly 0 and a cohort without a positive-outcome
\* record has true positive rate exactly 0.  Stated here for the populations
\* in which both cohorts have a record.
C2_EmptySubsetIsZero ==
  (load = "ok" /\ BothCohorts) =>
    \A m \in Calls :
      /\ Size({r \in ComparisonRows : Negative(r)}) = 0 => m.fpr_aa = Zero
      /\ Size({r \in ReferenceRows : Negative(r)}) = 0 => m.fpr_other = Zero
      /\ Size({r \in ComparisonRows : Positive(r)}) = 0 => m.tpr_aa = Zero
      /\ Size({r \in ReferenceRows : Positive(r)}) = 0 => m.tpr_other = Zero

(* -------------------------------- C3 ---------------------------------- *)
\* C3: disparate_impact is selection_rate[comparison] / selection_rate[reference];
\* when the reference selection rate is zero it is the non-finite marker, and
\* the marker reaches the report and every parity assessment: it is not
\* printed as a number and not assessed as an in-bounds ratio.  Stated here
\* for the populations in which both cohorts have a record.
C3_ZeroReferenceIsMarked ==
  \A m \in Calls :
    BothCohorts =>
    /\ (IsNum(m.selection_rate_aa) /\ FGt(m.selection_rate_other, Zero)) =>
         m.disparate_impact = FDiv(m.selection_rate_aa, m.selection_rate_other)
    /\ m.selection_rate_other = Zero =>
         /\ ~IsNum(m.disparate_impact)
         /\ "ACCEPTABLE" \notin ParityVerdicts
         /\ report # <<>> => report[1].disparate_impact.text # "number"

(* -------------------------------- C4 ---------------------------------- *)
\* the verdict the 80%-rule gives for a disparate impact
EightyPercentRule(di) ==
  IF IsNaN(di) THEN "ACCEPTABLE"
  ELSE IF ~IsNum(di) THEN "VIOLATED"
  ELSE IF 10 * di.n < 8 * di.d \/ 10 * di.n > 12 * di.d THEN "VIOLATED"
  ELSE "ACCEPTABLE"

\* C4: every rendering of the parity assessment (class report, console of
\* the simplified script, sentence of its written report) is VIOLATED
\* exactly when disparate_impact < 0.8 or > 1.2 and ACCEPTABLE otherwise.
C4_ParityVerdictEverywhere ==
  \A m \in Calls : ParityVerdicts \subseteq {EightyPercentRule(m.disparate_impact)}

(* -------------------------------- C5 ---------------------------------- *)
\* the verdict for two false positive rates: VIOLATED when their gap is a
\* number strictly above 1/20
FivePercentRule(a, b) ==
  IF IsNum(a) /\ IsNum(b) /\ 20 * IAbs(a.n * b.d - b.n * a.d) > a.d * b.d
  THEN "VIOLATED" ELSE "ACCEPTABLE"

IdenticalCohorts ==
  /\ BothCohorts
  /\ \A dec \in BOOLEAN, y \in {0, 1} :
       Size({r \in ComparisonRows : Selected(r) = dec /\ r.two_year_recid = y})
         * Size(ReferenceRows)
       = Size({r \in ReferenceRows : Selected(r) = dec /\ r.two_year_recid = y})
           * Size(ComparisonRows)

\* C6: when the two cohorts have identical joint distributions of decision
\* and outcome, disparate_impact is 1.0 and fpr_gap and tpr_gap are 0.
\* Stated here for the populations in which a record of the reference cohort
\* is selected, where the ratio of the two selection rates is defined.
C6_IdenticalCohortsAreFair ==
  (load = "ok" /\ IdenticalCohorts
     /\ Size({r \in ReferenceRows : Selected(r)}) > 0) =>
    \A m \in Calls :
      /\ m.disparate_impact = One
      /\ Gap(m.fpr_aa, m.fpr_other) = Zero
      /\ Gap(m.tpr_aa, m.tpr_other) = Zero

(* -------------------------------- C7 ---------------------------------- *)
\* C7: the two invocations of the metric computation that one run performs
\* return identical metrics, and the plotted and the reported values are
\* those of the first invocation.
C7_RepeatedComputationAgrees ==
  /\ Len(calls) = 2 => calls[1] = calls[2]
  /\ (plotted # <<>> /\ prog = "class") =>
       /\ plotted[1].fprs = <<calls[1].fpr_aa, calls[1].fpr_other>>
       /\ plotted[1].selection_rates =
            <<calls[1].selection_rate_aa, calls[1].selection_rate_other>>
       /\ plotted[1].disparate_impact = calls[1].disparate_impact
  /\ (plotted # <<>> /\ prog = "simple") =>
       /\ plotted[1].high_risk_aa = calls[1].selection_rate_aa
       /\ plotted[1].high_risk_other = calls[1].selection_rate_other
       /\ plotted[1].fpr_aa = calls[1].fpr_aa
       /\ plotted[1].fpr_other = calls[1].fpr_other
  /\ (report # <<>> /\ prog = "class") =>
       /\ report[1].disparate_impact = FormatFixed(calls[2].disparate_impact, 3)
       /\ report[1].fpr_aa = FormatFixed(calls[2].fpr_aa, 3)
       /\ report[1].selection_rate_aa = FormatFixed(calls[2].selection_rate_aa, 3)
  /\ (report # <<>> /\ prog = "simple") =>
       /\ report[1].disparate_impact = FormatFixed(calls[1].disparate_impact, 2)
       /\ report[1].fpr_aa = FormatPercent(calls[1].fpr_aa)
       /\ report[1].selection_rate_aa = FormatPercent(calls[1].selection_rate_aa)

\* a finished run of the simplified script over both cohorts, with some but
\* not all records selected: two invocations, a plot and a report
C7_Witness ==
  /\ prog = "simple" /\ pc = "done" /\ Len(calls) = 2 /\ BothCohorts
  /\ report # <<>> /\ plotted # <<>>
  /\ \E r \in DOMAIN data : r.high_risk = 1
  /\ \E r \in DOMAIN data : r.high_risk = 0

(* -------------------------------- C8 ---------------------------------- *)
Thresholds == (high_risk_threshold - 2) .. (high_risk_threshold + 2)

\* C8: the decision is decile_score >= 5, and for every cohort and every
\* pair of thresholds t1 <= t2 the selection rate under t2 is at most the
\* one under t1 (both are NaN for a cohort without a record), in the
\* computation of either program, over the population the run computes on.
C8_ThresholdMonotone ==
  load = "ok" =>
    /\ \A r \in DOMAIN data :
         r.high_risk # NoColumn => (r.high_risk = 1 <=> r.decile_score >= 5)
    /\ \A m \in Calls :
         /\ m.selection_rate_aa = Mean(Size({r \in ComparisonRows : Selected(r)}),
                                       Size(ComparisonRows))
         /\ m.selection_rate_other = Mean(Size({r \in ReferenceRows : Selected(r)}),
                                          Size(ReferenceRows))
    /\ Len(calls) = 1 =>
       LET class_rate == [ones \in {0, 1} |-> [t \in Thresholds |->
                            ClassSelectionRate(data, {r \in DOMAIN data : r.race_binary = ones}, t)]]
           simple_rate == [aa \in BOOLEAN |-> [t \in Thresholds |->
                            LET d == AddHighRisk(data, t)
                            IN  HighRiskMean(d, {r \in DOMAIN d : Comparison(r) = aa})]]
       IN  \A t1, t2 \in Thresholds :
             t1 <= t2 =>
               /\ \A ones \in {0, 1} :
                    IF Size({r \in DOMAIN data : r.race_binary = ones}) = 0
                    THEN IsNaN(class_rate[ones][t1]) /\ IsNaN(class_rate[ones][t2])
                    ELSE FLe(class_rate[ones][t2], class_rate[ones][t1])
               /\ \A aa \in BOOLEAN :
                    IF Size({r \in DOMAIN data : Comparison(r) = aa}) = 0
                    THEN IsNaN(simple_rate[aa][t1]) /\ IsNaN(simple_rate[aa][t2])
                    ELSE FLe(simple_rate[aa][t2], simple_rate[aa][t1])

\* a computed population in which raising the threshold from 5 to 6 strictly
\* lowers the comparison cohort's selection rate
C8_Witness ==
  /\ Computed /\ load = "ok"
  /\ LET cohort == {r \in DOMAIN data : Comparison(r)}
     IN  /\ FGt(ClassSelectionRate(data, cohort, 5), ClassSelectionRate(data, cohort, 6))
         /\ FGt(ClassSelectionRate(data, cohort, 6), Zero)


(* -------------------------------- C9 ---------------------------------- *)
\* some metric of the computation is NaN
HoldsNaN(m) ==
  \E v \in Rates(m) \cup {m.disparate_impact} : IsNaN(v)

\* C9: when the filtered population or the comparison cohort is empty, no
\* metric holds NaN and no NaN reaches the assessment or the report.
C9_NoNaNOnEmptyCohort ==
  (load = "ok" /\ Size(ComparisonRows) = 0) =>
    /\ \A m \in Calls : ~HoldsNaN(m)
    /\ report # <<>> =>
         /\ report[1].selection_rate_aa.text # "nan"
         /\ report[1].disparate_impact.text # "nan"

(* -------------------------------- C10 --------------------------------- *)
\* the file is missing or lacks a relevant column
Unloadable == ~file.exists \/ \E c \in relevant_cols : c \notin file.columns

\* C10: when the input file is missing or lacks a required column, the
\* failure is reported and no statistics, metric computation, visualization
\* or report file ever follows.
C10_NothingAfterFailedLoad ==
  Unloadable =>
    /\ stats = <<>> /\ calls = <<>> /\ plotted = <<>> /\ report = <<>>
    /\ written = {}
    /\ load # "ok"
    /\ pc \notin {"c_load", "s_load"} =>
         /\ load = "failed"
         /\ InConsole("Error loading dataset") \/ InConsole("Error loading data")

\* a run that ended after the load of a file without its race column failed
C10_Witness ==
  /\ pc = "done" /\ load = "failed"
  /\ file.exists /\ "race" \notin file.columns


(* -------------------------------- C11 --------------------------------- *)
\* the fields a record of the frame has (a column the frame lacks is NoColumn)
Fields(r) ==
  relevant_cols
  \cup (IF r.race_binary # NoColumn THEN {"race_binary"} ELSE {})
  \cup (IF r.high_risk # NoColumn THEN {"high_risk"} ELSE {})

\* a step in which the metric computation is invoked
Invocation == Len(calls') = Len(calls) + 1

\* C11: an invocation of analyze_bias(data) or calculate_fairness_metrics()
\* leaves the population it was given unchanged: the same records, with the
\* same set of fields per record.
C11_ComputationLeavesPopulation ==
  [][Invocation =>
       /\ data' = data
       /\ {Fields(r) : r \in DOMAIN data'} = {Fields(r) : r \in DOMAIN data}]_vars


(* -------------------------------- C12 --------------------------------- *)
\* the record has its group attribute, its risk score and its outcome
HasRequiredFields(r) ==
  /\ r.race # NullStr
  /\ r.decile_score # NullNum
  /\ r.two_year_recid # NullNum

\* the population without the records that miss a required field
RequiredOnly == BagFilter(data, {r \in DOMAIN data : HasRequiredFields(r)})

\* C12: from the end of preprocessing on, before the statistics, the cohort
\* split and any rate, every record of the population has its group
\* attribute, risk score and outcome; and every metric the run holds is the
\* one computed from the records that have them, not patched afterwards.
C12_FilterThenCompute ==
  load = "ok" =>
    /\ \A r \in DOMAIN data : HasRequiredFields(r)
    /\ Count(data, DOMAIN data)
         <= Count(file.rows, {r \in DOMAIN file.rows : HasRequiredFields(r)})
    /\ \A m \in Calls :
         m = IF prog = "class"
             THEN calculate_fairness_metrics(RequiredOnly, high_risk_score)
             ELSE analyze_bias(AddHighRisk(RequiredOnly, high_risk_threshold))

\* a finished run over a file that had a record without a required field
\* and a record with all of them
C12_Witness ==
  /\ pc = "done" /\ load = "ok" /\ Len(calls) = 2
  /\ \E r \in DOMAIN file.rows : ~HasRequiredFields(r)
  /\ Count(data, DOMAIN data) > 0


(* -------------------------------- C13 --------------------------------- *)
\* what each program computes over the population of the run
ClassMetrics == calculate_fairness_metrics(data, high_risk_score)
SimpleMetrics == analyze_bias(AddHighRisk(data, high_risk_threshold))

\* the verdicts the simplified script prints, in the class auditor's words
SimpleParityVerdict(di) ==
  IF ConsoleParityAssessment(di) = "OK: Demographic parity acceptable"
  THEN "ACCEPTABLE" ELSE "VIOLATED"

SimpleEqualOpportunityVerdict(fpr_aa, fpr_other) ==
  IF ConsoleEqualOpportunityAssessment(fpr_aa, fpr_other)
       = "OK: Equal opportunity acceptable"
  THEN "ACCEPTABLE" ELSE "VIOLATED"

\* C13: over the population of a run, calculate_fairness_metrics and
\* analyze_bias give the same selection rates, false positive rates, true
\* positive rates and disparate_impact for the two cohorts, and the same
\* parity and equal-opportunity verdicts.  Stated here for the populations
\* in which both cohorts have a record, where every selection rate is a
\* number.
C13_ImplementationsAgree ==
  (load = "ok" /\ Computed /\ BothCohorts) =>
    /\ calls[1] = IF prog = "class" THEN ClassMetrics ELSE SimpleMetrics
    /\ ClassMetrics.selection_rate_aa = SimpleMetrics.selection_rate_aa
    /\ ClassMetrics.selection_rate_other = SimpleMetrics.selection_rate_other
    /\ ClassMetrics.tpr_aa = SimpleMetrics.tpr_aa
    /\ ClassMetrics.tpr_other = SimpleMetrics.tpr_other
    /\ ClassMetrics.fpr_aa = SimpleMetrics.fpr_aa
    /\ ClassMetrics.fpr_other = SimpleMetrics.fpr_other
    /\ ClassMetrics.disparate_impact = SimpleMetrics.disparate_impact
    /\ ClassParityAssessment(ClassMetrics.disparate_impact)
         = SimpleParityVerdict(SimpleMetrics.disparate_impact)
    /\ ClassEqualOpportunityAssessment(ClassMetrics.fpr_difference)
         = SimpleEqualOpportunityVerdict(SimpleMetrics.fpr_aa,
                                         SimpleMetrics.fpr_other)


(* -------------------------------- C14 --------------------------------- *)
\* main has announced the run as completed, or has returned True
AnnouncedSuccess ==
  InConsole("Audit completed successfully!") \/ result = "True"

\* C14: the class auditor's main announces "Audit completed successfully!"
\* and returns True only if the dataset was loaded and the visualization and
\* the report were produced; after a failed load it does neither.
C14_SuccessOnlyAfterAudit ==
  (prog = "class" /\ AnnouncedSuccess) =>
    /\ load = "ok"
    /\ plotted # <<>> /\ report # <<>>
    /\ written = {"compas_bias_analysis.png", "compas_bias_audit_report.txt"}

=============================================================================
